---- MODULE Spec2Model ----
(***************************************************************************)
(* State-machine model of createSummaries.py: extract_pdf_text and the     *)
(* per-article loop of create_summaries with its four backend cases.       *)
(* The filesystem, the process environment and the backends are the        *)
(* environment of the program; what they hand to the program is drawn      *)
(* nondeterministically at the call that reads it.                         *)
(***************************************************************************)
EXTENDS Integers, Sequences, FiniteSets, TLC

\* Length of the article list handed to create_summaries.
NumArticles == 2

\* text[:4000]
MaxChars == 4000

\* "max_tokens": 1000 / max_tokens=1000
MaxTokens == 1000

\* "temperature": 0.3 / temperature=0.3
Temperature == "0.3"

Absent == "<absent>"
Unset == "<unset>"

ArticleIds == 1..NumArticles

Min(a, b) == IF a < b THEN a ELSE b

----------------------------------------------------------------------------
(* Python values that article.summary can hold: a str or None. *)

Str(s) == [type |-> "str", val |-> s]
PyNone == [type |-> "NoneType", val |-> ""]
EmptyStr == Str("")

----------------------------------------------------------------------------
(* Text.  A text is a sequence of runs; the run [pg, from, to] stands for  *)
(* the characters from..to of the text of page pg, so that two texts are   *)
(* equal exactly when they hold the same characters in the same order.     *)

EmptyText == << >>

Run(pg, from, to) == [pg |-> pg, from |-> from, to |-> to]

RunLen(r) == r.to - r.from + 1

RECURSIVE TextLen(_)
TextLen(t) == IF t = << >> THEN 0 ELSE RunLen(Head(t)) + TextLen(Tail(t))

\* Python's text[:n].
RECURSIVE Slice(_, _)
Slice(t, n) ==
  IF n <= 0 \/ t = << >> THEN << >>
  ELSE IF RunLen(Head(t)) <= n
       THEN <<Head(t)>> \o Slice(Tail(t), n - RunLen(Head(t)))
       ELSE <<Run(Head(t).pg, Head(t).from, Head(t).from + n - 1)>>

\* The emptiness test left out.
FalsyNever(t) == FALSE

\* Python truthiness of a str: `not pdf_text`.
Falsy(t) == t = EmptyText

----------------------------------------------------------------------------
(* PDF files as PyPDF2 presents them: the reader opens or raises, and each *)
(* page's extract_text() gives a str of some length or None.               *)

Page(n) == [has_text |-> TRUE, len |-> n]
NoTextPage == [has_text |-> FALSE, len |-> 0]

NoFile == [name |-> "none", readable |-> FALSE, pages |-> << >>]
CorruptPdf == [name |-> "corrupt", readable |-> FALSE, pages |-> << >>]
ScannedPdf == [name |-> "scanned", readable |-> TRUE, pages |-> <<NoTextPage, Page(0)>>]
ShortPdf == [name |-> "short", readable |-> TRUE, pages |-> <<Page(10)>>]
LongPdf == [name |-> "long", readable |-> TRUE,
            pages |-> <<Page(3000), NoTextPage, Page(2000)>>]

PdfFiles == {CorruptPdf, ScannedPdf, ShortPdf, LongPdf}

\* page.extract_text() or ""
PageText(pages, k) ==
  IF pages[k].has_text /\ pages[k].len > 0
  THEN <<Run(k, 1, pages[k].len)>>
  ELSE EmptyText

\* for page in reader.pages: text += page.extract_text() or ""
RECURSIVE ConcatPages(_, _, _)
ConcatPages(pages, k, text) ==
  IF k > Len(pages) THEN text
  ELSE ConcatPages(pages, k + 1, text \o PageText(pages, k))

extract_pdf_text_untruncated(f) ==
  IF ~f.readable THEN EmptyText
  ELSE ConcatPages(f.pages, 1, EmptyText)

extract_pdf_text(f) ==
  IF ~f.readable THEN EmptyText
  ELSE Slice(ConcatPages(f.pages, 1, EmptyText), MaxChars)

----------------------------------------------------------------------------
(* The process environment and the configuration read from it. *)

EnvUnset ==
  [FUELIX_API_URL |-> Unset, FUELIX_API_KEY |-> Unset, FUELIX_MODEL |-> Unset,
   OLLAMA_API_URL |-> Unset, OLLAMA_MODEL |-> Unset, LM_STUDIO_API_URL |-> Unset,
   OPENAI_MODEL |-> Unset, OPENAI_API_KEY |-> Unset]

EnvSet ==
  [FUELIX_API_URL |-> "https://fuelix.example", FUELIX_API_KEY |-> "fx-key",
   FUELIX_MODEL |-> "fx-model", OLLAMA_API_URL |-> "http://ollama.example/api/chat",
   OLLAMA_MODEL |-> "llama3", LM_STUDIO_API_URL |-> "http://lmstudio.example/v1",
   OPENAI_MODEL |-> "gpt-x", OPENAI_API_KEY |-> "sk-first"]

Environments == {EnvUnset, EnvSet}

RotatedKey == "sk-second"

\* os.getenv(name, default)
getenv(e, name, default) == IF e[name] = Unset THEN default ELSE e[name]

\* The eight locals assigned at the top of create_summaries.
ReadConfiguration(e) ==
  [fuelix_api_url |-> getenv(e, "FUELIX_API_URL", "https://proxy.fuelix.com"),
   fuelix_api_key |-> getenv(e, "FUELIX_API_KEY", ""),
   fuelix_model |-> getenv(e, "FUELIX_MODEL", ""),
   ollama_api_url |-> getenv(e, "OLLAMA_API_URL", "http://localhost:11434/api/chat"),
   ollama_model |-> getenv(e, "OLLAMA_MODEL", "mistral"),
   lm_studio_api_url |-> getenv(e, "LM_STUDIO_API_URL", "http://localhost:1234/v1"),
   openai_model |-> getenv(e, "OPENAI_MODEL", "gpt-4o-mini"),
   openai_api_key |-> getenv(e, "OPENAI_API_KEY", "")]

NoConfiguration ==
  [fuelix_api_url |-> Unset, fuelix_api_key |-> Unset, fuelix_model |-> Unset,
   ollama_api_url |-> Unset, ollama_model |-> Unset, lm_studio_api_url |-> Unset,
   openai_model |-> Unset, openai_api_key |-> Unset]

\* The SDK's default endpoint, used when OpenAI() is given no base_url.
OpenAIDefaultBaseUrl == "https://api.openai.com/v1"

\* The values of llm: the three named cases, the documented default, and an
\* identifier no case names (which takes `case _` as well).
Backends == {"local", "ollama", "fuelix", "openai", "other"}

----------------------------------------------------------------------------
(* Requests.  One record shape for the four cases; a key the case does not *)
(* send is left out of `keys` and its field holds Absent (0 for a number). *)

LocalRequest(i, arts, c, text) ==
  [art |-> i, case |-> "local",
   base_url |-> c.lm_studio_api_url, path |-> "/chat/completions",
   api_key |-> Absent, model |-> Absent,
   keys |-> {"messages", "temperature", "max_tokens"},
   title |-> arts[i].title, text |-> text,
   temperature |-> Temperature, max_tokens |-> MaxTokens, stream |-> Absent]

OllamaRequest(i, arts, c, text) ==
  [art |-> i, case |-> "ollama",
   base_url |-> c.ollama_api_url, path |-> "",
   api_key |-> Absent, model |-> c.ollama_model,
   keys |-> {"model", "messages", "stream"},
   title |-> arts[i].title, text |-> text,
   temperature |-> Absent, max_tokens |-> 0, stream |-> "False"]

FuelixRequest(i, arts, c, text) ==
  [art |-> i, case |-> "fuelix",
   base_url |-> "https://proxy.fuelix.ai", path |-> "/chat/completions",
   api_key |-> c.fuelix_api_key, model |-> c.fuelix_model,
   keys |-> {"model", "messages", "temperature", "max_tokens"},
   title |-> arts[i].title, text |-> text,
   temperature |-> Temperature, max_tokens |-> MaxTokens, stream |-> Absent]

\* client = OpenAI(api_key=os.getenv('OPENAI_API_KEY')): the key is the
\* environment's value when the client is built, e being the environment then.
OpenAIRequest(i, arts, c, text, e) ==
  [art |-> i, case |-> "openai",
   base_url |-> OpenAIDefaultBaseUrl, path |-> "/chat/completions",
   api_key |-> e.OPENAI_API_KEY, model |-> c.openai_model,
   keys |-> {"model", "messages", "temperature", "max_tokens"},
   title |-> arts[i].title, text |-> text,
   temperature |-> Temperature, max_tokens |-> MaxTokens, stream |-> Absent]

----------------------------------------------------------------------------
(* Replies of a backend.  kind is "transport_error" when no HTTP response  *)
(* arrives; otherwise the reply has a status and a body.  A body is either *)
(* not JSON or a JSON object described by the keys present on the path     *)
(* choices / [0] / message / content (top-level message / content for the  *)
(* ollama shape).                                                          *)

Body(valid, top, n, choice, message, content) ==
  [valid_json |-> valid, top_keys |-> top, n_choices |-> n,
   choice_keys |-> choice, message_keys |-> message, content |-> content]

NotJsonBody == Body(FALSE, {}, 0, {}, {}, PyNone)
EmptyObjectBody == Body(TRUE, {}, 0, {}, {}, PyNone)
EmptyChoicesBody == Body(TRUE, {"choices"}, 0, {}, {}, PyNone)
NoMessageBody == Body(TRUE, {"choices"}, 1, {}, {}, PyNone)
NoContentBody == Body(TRUE, {"choices", "message"}, 1, {"message"}, {}, PyNone)

\* A well-formed body, carrying both shapes' paths to content.
ContentBody(c) == Body(TRUE, {"choices", "message"}, 1, {"message"}, {"content"}, c)

Http(status, body) == [kind |-> "http", status |-> status, body |-> body]
TransportError == [kind |-> "transport_error", status |-> 0, body |-> NotJsonBody]
NoReply == [kind |-> "none", status |-> 0, body |-> NotJsonBody]

Contents == {PyNone, Str(" summary ")}

Replies ==
  {TransportError, Http(500, NotJsonBody), Http(200, NotJsonBody),
   Http(200, EmptyObjectBody), Http(200, EmptyChoicesBody),
   Http(200, NoMessageBody), Http(200, NoContentBody),
   Http(300, ContentBody(Str(" summary ")))}
  \cup {Http(200, ContentBody(c)) : c \in Contents}

----------------------------------------------------------------------------
(* What each case's try-block does with a reply: the exception it raises,  *)
(* or the value the subscripts reach.                                      *)

Raise(e) == [exc |-> e, value |-> PyNone]
Return(v) == [exc |-> "", value |-> v]

\* requests.post, raise_for_status (which raises for 4xx and 5xx),
\* response.json()["choices"][0]["message"]["content"]
LocalTry(r) ==
  IF r.kind = "transport_error" THEN Raise("ConnectionError")
  ELSE IF r.status >= 400 /\ r.status < 600 THEN Raise("HTTPError")
  ELSE IF ~r.body.valid_json THEN Raise("JSONDecodeError")
  ELSE IF "choices" \notin r.body.top_keys THEN Raise("KeyError")
  ELSE IF r.body.n_choices = 0 THEN Raise("IndexError")
  ELSE IF "message" \notin r.body.choice_keys THEN Raise("KeyError")
  ELSE IF "content" \notin r.body.message_keys THEN Raise("KeyError")
  ELSE Return(r.body.content)

\* requests.post, raise_for_status, response.json()["message"]["content"]
OllamaTry(r) ==
  IF r.kind = "transport_error" THEN Raise("ConnectionError")
  ELSE IF r.status >= 400 /\ r.status < 600 THEN Raise("HTTPError")
  ELSE IF ~r.body.valid_json THEN Raise("JSONDecodeError")
  ELSE IF "message" \notin r.body.top_keys THEN Raise("KeyError")
  ELSE IF "content" \notin r.body.message_keys THEN Raise("KeyError")
  ELSE Return(r.body.content)

\* client.chat.completions.create(...) and response.choices[0].message.content.
\* The client raises for a failed connection, any status outside 2xx and a
\* body it cannot decode; it builds the response object without validating
\* it, so a required field that is missing is an AttributeError on access
\* and the optional field content, when missing, reads as None.
SdkTry(r) ==
  IF r.kind = "transport_error" THEN Raise("APIConnectionError")
  ELSE IF r.status < 200 \/ r.status >= 300 THEN Raise("APIStatusError")
  ELSE IF ~r.body.valid_json THEN Raise("APIResponseValidationError")
  ELSE IF "choices" \notin r.body.top_keys THEN Raise("AttributeError")
  ELSE IF r.body.n_choices = 0 THEN Raise("IndexError")
  ELSE IF "message" \notin r.body.choice_keys THEN Raise("AttributeError")
  ELSE IF "content" \notin r.body.message_keys THEN Return(PyNone)
  ELSE Return(r.body.content)

\* The classes `except requests.exceptions.RequestException` catches.
IsRequestException(e) == e \in {"ConnectionError", "HTTPError", "JSONDecodeError"}

\* The outer handler catches only subclasses of RequestException.
OuterCatchesRequestOnly(e) == IsRequestException(e)

\* The classes the outer `except Exception` catches: all of those above.
OuterCatches(e) == TRUE

----------------------------------------------------------------------------
(* State. *)

VARIABLES
  env,        \* the process environment (os.environ)
  llm,        \* the llm argument
  cfg,        \* the locals read from the environment at the top of the call
  articles,   \* the list passed in; its records are mutated in place
  idx,        \* position of the for loop in articles
  pc,         \* where the call stands
  pdf_text,   \* the local pdf_text of the current iteration
  sent,       \* the backend requests issued so far, in order
  obs,        \* per article: what the environment handed to the call
  returned    \* the list the call returned

vars == <<env, llm, cfg, articles, idx, pc, pdf_text, sent, obs, returned>>

Article(i, summary) ==
  [title |-> <<"title", i>>, pdf_content |-> <<"path", i>>, summary |-> summary]

\* summary: str = "" is the default; records that went through an earlier
\* call carry the summary it left.  A list holds records of one kind.
InitialSummaries == {EmptyStr, Str("stale")}

NoObservation ==
  [status |-> "pending", exists |-> "unknown", file |-> NoFile, reply |-> NoReply,
   attempts |-> 0]

Terminal == {"missing", "empty", "summarized", "failed"}

Init ==
  /\ env \in Environments
  /\ llm \in Backends
  /\ cfg = NoConfiguration
  /\ \E s \in InitialSummaries : articles = [i \in ArticleIds |-> Article(i, s)]
  /\ obs = [i \in ArticleIds |-> NoObservation]
  /\ idx = 1
  /\ pc = "start"
  /\ pdf_text = EmptyText
  /\ sent = << >>
  /\ returned = << >>

----------------------------------------------------------------------------
(* Steps of create_summaries. *)

\* str.strip() on the values the backends return here.
Strip(v) == IF v = Str(" summary ") THEN Str("summary") ELSE v

\* article.summary = <value>.strip()
SetSummaryStripped(arts, i, v) == [arts EXCEPT ![i].summary = Strip(v)]

\* article.summary = <value>

SetSummary(arts, i, v) == [arts EXCEPT ![i].summary = v]

\* except Exception as e: ... article.summary = ""
OuterExcept(arts, i) == SetSummary(arts, i, EmptyStr)

\* The inner handlers: except ...: ... article.summary = ""
InnerExcept(arts, i) == SetSummary(arts, i, EmptyStr)

\* return articles, filtered to the records that got a summary
ReturnSummarized(arts) == SelectSeq(arts, LAMBDA a : a.summary # EmptyStr)

\* return articles
ReturnValue(arts) == arts

Mark(i, status) == [obs EXCEPT ![i].status = status]

\* The end of one iteration of the for loop.
NextIteration ==
  /\ idx' = idx + 1
  /\ pc' = "loop"
  /\ pdf_text' = EmptyText

\* An exception e leaves the try-block of the current article.
Unwind(e) ==
  IF OuterCatches(e)
  THEN /\ articles' = OuterExcept(articles, idx)
       /\ NextIteration
  ELSE /\ articles' = articles
       /\ pc' = "raised"
       /\ UNCHANGED <<idx, pdf_text>>

\* The eight os.getenv calls before the loop.
ReadConfig ==
  /\ pc = "start"
  /\ cfg' = ReadConfiguration(env)
  /\ pc' = "loop"
  /\ UNCHANGED <<env, llm, articles, idx, pdf_text, sent, obs, returned>>

\* if not os.path.exists(article.pdf_content): ... continue
\* The call answers True or False, or raises.
CheckExists ==
  /\ pc = "loop"
  /\ idx <= Len(articles)
  /\ \E answer \in {"yes", "no", "error"} :
       CASE answer = "no" ->
              /\ obs' = [obs EXCEPT ![idx].exists = "no", ![idx].status = "missing",
                                    ![idx].attempts = @ + 1]
              /\ NextIteration
              /\ UNCHANGED articles
         [] answer = "yes" ->
              /\ obs' = [obs EXCEPT ![idx].exists = "yes", ![idx].attempts = @ + 1]
              /\ pc' = "extract"
              /\ UNCHANGED <<articles, idx, pdf_text>>
         [] answer = "error" ->
              /\ obs' = [obs EXCEPT ![idx].exists = "error", ![idx].status = "failed",
                                    ![idx].attempts = @ + 1]
              /\ Unwind("TypeError")
  /\ UNCHANGED <<env, llm, cfg, sent, returned>>

\* pdf_text = extract_pdf_text(article.pdf_content); if not pdf_text: continue
Extract ==
  /\ pc = "extract"
  /\ \E f \in PdfFiles :
       LET text == extract_pdf_text(f) IN
         IF Falsy(text)
         THEN /\ obs' = [obs EXCEPT ![idx].file = f, ![idx].status = "empty"]
              /\ NextIteration
         ELSE /\ obs' = [obs EXCEPT ![idx].file = f]
              /\ pdf_text' = text
              /\ pc' = "dispatch"
              /\ UNCHANGED idx
  /\ UNCHANGED <<env, llm, cfg, articles, sent, returned>>

\* case 'local': the payload and requests.post
SendLocal ==
  /\ pc = "dispatch"
  /\ llm = "local"
  /\ sent' = Append(sent, LocalRequest(idx, articles, cfg, pdf_text))
  /\ pc' = "await"
  /\ UNCHANGED <<env, llm, cfg, articles, idx, pdf_text, obs, returned>>

\* case 'ollama': the payload and requests.post
SendOllama ==
  /\ pc = "dispatch"
  /\ llm = "ollama"
  /\ sent' = Append(sent, OllamaRequest(idx, articles, cfg, pdf_text))
  /\ pc' = "await"
  /\ UNCHANGED <<env, llm, cfg, articles, idx, pdf_text, obs, returned>>

\* case 'fuelix': OpenAI(api_key=fuelix_api_key, base_url=...) and create(...)
SendFuelix ==
  /\ pc = "dispatch"
  /\ llm = "fuelix"
  /\ sent' = Append(sent, FuelixRequest(idx, articles, cfg, pdf_text))
  /\ pc' = "await"
  /\ UNCHANGED <<env, llm, cfg, articles, idx, pdf_text, obs, returned>>

\* case _: OpenAI(api_key=os.getenv('OPENAI_API_KEY')) and create(...).
\* With no key in the environment the constructor raises, outside the inner
\* try, and no request is made.
SendOpenAI ==
  /\ pc = "dispatch"
  /\ llm \notin {"local", "ollama", "fuelix"}
  /\ IF env.OPENAI_API_KEY = Unset
     THEN /\ obs' = Mark(idx, "failed")
          /\ Unwind("OpenAIError")
          /\ UNCHANGED sent
     ELSE /\ sent' = Append(sent, OpenAIRequest(idx, articles, cfg, pdf_text, env))
          /\ pc' = "await"
          /\ UNCHANGED <<articles, idx, pdf_text, obs>>
  /\ UNCHANGED <<env, llm, cfg, returned>>

\* What follows a case's try-block, given what the block did with reply r:
\* the assignment of the summary, the inner handler, or the outer one.
Settle(r, result, innerCatches) ==
  IF result.exc = ""
  THEN /\ articles' = SetSummary(articles, idx, result.value)
       /\ obs' = [obs EXCEPT ![idx].reply = r, ![idx].status = "summarized"]
       /\ NextIteration
  ELSE /\ obs' = [obs EXCEPT ![idx].reply = r, ![idx].status = "failed"]
       /\ IF innerCatches
          THEN /\ articles' = InnerExcept(articles, idx)
               /\ NextIteration
          ELSE Unwind(result.exc)

\* case 'local': the response arrives
RecvLocal ==
  /\ pc = "await"
  /\ llm = "local"
  /\ \E r \in Replies :
       Settle(r, LocalTry(r), IsRequestException(LocalTry(r).exc))
  /\ UNCHANGED <<env, llm, cfg, sent, returned>>

\* case 'ollama': the response arrives
RecvOllama ==
  /\ pc = "await"
  /\ llm = "ollama"
  /\ \E r \in Replies :
       Settle(r, OllamaTry(r), IsRequestException(OllamaTry(r).exc))
  /\ UNCHANGED <<env, llm, cfg, sent, returned>>

\* case 'fuelix': the response arrives; except Exception
RecvFuelix ==
  /\ pc = "await"
  /\ llm = "fuelix"
  /\ \E r \in Replies : Settle(r, SdkTry(r), TRUE)
  /\ UNCHANGED <<env, llm, cfg, sent, returned>>

\* case _: the response arrives; except Exception
RecvOpenAI ==
  /\ pc = "await"
  /\ llm \notin {"local", "ollama", "fuelix"}
  /\ \E r \in Replies : Settle(r, SdkTry(r), TRUE)
  /\ UNCHANGED <<env, llm, cfg, sent, returned>>

\* return articles
Finish ==
  /\ pc = "loop"
  /\ idx > Len(articles)
  /\ returned' = ReturnValue(articles)
  /\ pc' = "done"
  /\ UNCHANGED <<env, llm, cfg, articles, idx, pdf_text, sent, obs>>

\* The environment changes under the running call: OPENAI_API_KEY is set to
\* another key between two articles.
EnvChange ==
  /\ pc = "loop"
  /\ idx > 1
  /\ idx <= Len(articles)
  /\ env.OPENAI_API_KEY \notin {Unset, RotatedKey}
  /\ env' = [env EXCEPT !.OPENAI_API_KEY = RotatedKey]
  /\ UNCHANGED <<llm, cfg, articles, idx, pc, pdf_text, sent, obs, returned>>

Next ==
  \/ ReadConfig
  \/ CheckExists
  \/ Extract
  \/ SendLocal
  \/ SendOllama
  \/ SendFuelix
  \/ SendOpenAI
  \/ RecvLocal
  \/ RecvOllama
  \/ RecvFuelix
  \/ RecvOpenAI
  \/ Finish

Spec == Init /\ [][Next]_vars

\* The same call in an environment that changes while it runs.
NextEnv ==
  \/ Next
  \/ EnvChange

SpecEnv == Init /\ [][NextEnv]_vars

\* The call on a list of records that all have the default summary.
InitFresh == Init /\ \A i \in ArticleIds : articles[i].summary = EmptyStr

SpecFresh == InitFresh /\ [][Next]_vars

----------------------------------------------------------------------------
(* Vocabulary of the properties, stated on what the environment handed to  *)
(* the call rather than on what the call made of it.                       *)

Processed(i) == obs[i].status \in Terminal

\* The file yields no text: it cannot be read, or no page has characters.
YieldsNoText(f) ==
  \/ ~f.readable
  \/ \A k \in DOMAIN f.pages : ~f.pages[k].has_text \/ f.pages[k].len = 0

RequestsFor(i) == {k \in DOMAIN sent : sent[k].art = i}

\* The path to content the selected case reads is present in body b.
PathPresent(b) ==
  IF llm = "ollama"
  THEN "message" \in b.top_keys /\ "content" \in b.message_keys
  ELSE /\ "choices" \in b.top_keys
       /\ b.n_choices > 0
       /\ "message" \in b.choice_keys
       /\ "content" \in b.message_keys

Is2xx(r) == r.kind = "http" /\ r.status >= 200 /\ r.status < 300

\* A transport error, a status outside 2xx, a body that is not JSON or a
\* body without the expected keys.
IsFailureReply(r) ==
  \/ r.kind = "transport_error"
  \/ r.kind = "http" /\ (~Is2xx(r) \/ ~r.body.valid_json \/ ~PathPresent(r.body))

IsSuccessReply(r) == Is2xx(r) /\ r.body.valid_json /\ PathPresent(r.body)

PageLen(p) == IF p.has_text THEN p.len ELSE 0

\* Number of characters of pages 1..k-1.
RECURSIVE CharsBefore(_, _)
CharsBefore(pages, k) ==
  IF k <= 1 THEN 0 ELSE CharsBefore(pages, k - 1) + PageLen(pages[k - 1])

\* Number of characters of runs 1..n-1 of text t.
RECURSIVE RunStart(_, _)
RunStart(t, n) == IF n <= 1 THEN 0 ELSE RunStart(t, n - 1) + RunLen(t[n - 1])

\* Every character of t stands in t where it stands in the page-order
\* concatenation of the pages.
InPlace(t, pages) ==
  \A n \in DOMAIN t :
    /\ t[n].pg \in DOMAIN pages
    /\ t[n].from >= 1
    /\ t[n].from <= t[n].to
    /\ t[n].to <= PageLen(pages[t[n].pg])
    /\ RunStart(t, n) + 1 = CharsBefore(pages, t[n].pg) + t[n].from

----------------------------------------------------------------------------
(* The claims. *)

\* C1: whatever happens to the articles (missing file, failed extraction,
\* failed or malformed backend reply, another exception), no exception leaves
\* create_summaries, the call can always take its next step until it has
\* returned, every article before the loop position has reached a terminal
\* state, and when the call has returned every article has.
C1_NoFailureAbortsTheBatch ==
  /\ pc # "raised"
  /\ (pc = "done" \/ ENABLED Next)
  /\ \A i \in ArticleIds : i < idx => Processed(i)
  /\ pc = "done" => \A i \in ArticleIds : Processed(i)

\* Article 1 met an exception outside the named failure kinds, and article 2
\* was summarized after it.
C1_Witness ==
  /\ pc = "done"
  /\ obs[1].exists = "error" /\ obs[1].status = "failed"
  /\ obs[2].status = "summarized"

\* C2: a request is issued for an article only if its path exists and its
\* file yields text: no request exists for an article whose path does not
\* exist or whose file yields no text.
C2_RequestOnlyForExtractedText ==
  /\ \A k \in DOMAIN sent :
       /\ obs[sent[k].art].exists = "yes"
       /\ ~YieldsNoText(obs[sent[k].art].file)
       /\ sent[k].text # EmptyText
  /\ \A i \in ArticleIds :
       (obs[i].exists = "no" \/ obs[i].status = "empty") => RequestsFor(i) = {}

\* Article 1's file exists and yields no text, no request was made for it,
\* and one was made for article 2.
C2_Witness ==
  /\ obs[1].exists = "yes" /\ YieldsNoText(obs[1].file) /\ obs[1].status = "empty"
  /\ Len(sent) = 1 /\ sent[1].art = 2

\* C3: after the call has returned, every article skipped without a backend
\* call (path missing, or extracted text empty) has summary "".
C3_SkippedArticlesHaveEmptySummary ==
  pc = "done" =>
    \A i \in ArticleIds :
      obs[i].status \in {"missing", "empty"} => returned[i].summary = EmptyStr

\* C4: when the backend call for an article ended in a transport error, a
\* status outside 2xx or a body of unexpected shape, the article's summary is
\* "" once it is processed, and nothing is raised to the caller.
C4_FailedCallGivesEmptySummary ==
  /\ pc # "raised"
  /\ \A i \in ArticleIds :
       (Processed(i) /\ IsFailureReply(obs[i].reply)) => articles[i].summary = EmptyStr

\* C5: every article's summary is a string in every state, and after the
\* call has returned it is "" or a non-empty string the backend produced for
\* that article in this call.
C5_SummaryIsAlwaysAString ==
  /\ \A i \in ArticleIds : articles[i].summary.type = "str"
  /\ pc = "done" =>
       \A i \in ArticleIds :
         \/ returned[i].summary = EmptyStr
         \/ /\ returned[i].summary.type = "str"
            /\ obs[i].status = "summarized"
            /\ returned[i].summary = obs[i].reply.body.content

\* C6: when the backend call for an article succeeded, the article's summary
\* is the content field of the reply to that article's request, unchanged.
C6_SummaryIsTheReplyContent ==
  \A i \in ArticleIds :
    (Processed(i) /\ IsSuccessReply(obs[i].reply)) =>
      /\ articles[i].summary = obs[i].reply.body.content
      /\ pc = "done" => returned[i].summary = obs[i].reply.body.content

\* An article holds, untrimmed, the content its backend returned.
C6_Witness ==
  /\ pc = "done"
  /\ \E i \in ArticleIds :
       /\ obs[i].reply = Http(200, ContentBody(Str(" summary ")))
       /\ returned[i].summary = Str(" summary ")

\* C7: the text in a request is the first min(4000, len) characters of the
\* page-order concatenation of the page texts of the article's PDF (a page
\* without text adding nothing), hence at most 4000 characters.
C7_RequestTextIsTruncatedPrefix ==
  \A k \in DOMAIN sent :
    LET pages == obs[sent[k].art].file.pages IN
      /\ InPlace(sent[k].text, pages)
      /\ TextLen(sent[k].text) = Min(MaxChars, CharsBefore(pages, Len(pages) + 1))
      /\ TextLen(sent[k].text) <= MaxChars

\* A request carries 4000 of the 5000 characters of a three-page PDF.
C7_Witness ==
  \E k \in DOMAIN sent :
    /\ obs[sent[k].art].file = LongPdf
    /\ TextLen(sent[k].text) = MaxChars
    /\ Len(sent[k].text) = 2

\* C8: every request carries temperature 0.3 and a maximum output length of
\* 1000 tokens.
C8_EveryRequestFixesSampling ==
  \A k \in DOMAIN sent :
    /\ {"temperature", "max_tokens"} \subseteq sent[k].keys
    /\ sent[k].temperature = Temperature
    /\ sent[k].max_tokens = MaxTokens

\* C9: the openai and fuelix cases send the same keys, and each request uses
\* the API key, base URL and model read from the configuration at the start
\* of the call.
C9_RequestUsesConfiguration ==
  \A k \in DOMAIN sent :
    /\ sent[k].case = "fuelix" =>
         /\ sent[k].base_url = cfg.fuelix_api_url
         /\ sent[k].api_key = cfg.fuelix_api_key
         /\ sent[k].model = cfg.fuelix_model
    /\ sent[k].case = "openai" =>
         /\ sent[k].api_key = cfg.openai_api_key
         /\ sent[k].model = cfg.openai_model
    /\ sent[k].case \in {"fuelix", "openai"} =>
         sent[k].keys = {"model", "messages", "temperature", "max_tokens"}

\* C10: each article is attempted once, at most one request is issued per
\* article and requests follow list order, an article is taken up only when
\* all before it are processed, and the returned list holds the input
\* records in the input order.
C10_OnceEachInOrder ==
  /\ \A i \in ArticleIds : obs[i].attempts <= 1 /\ Cardinality(RequestsFor(i)) <= 1
  /\ \A k \in DOMAIN sent : \A m \in DOMAIN sent : k < m => sent[k].art < sent[m].art
  /\ \A i \in ArticleIds :
       obs[i].attempts > 0 => \A j \in ArticleIds : j < i => Processed(j)
  /\ pc = "done" =>
       /\ Len(returned) = NumArticles
       /\ \A i \in ArticleIds :
            /\ obs[i].attempts = 1
            /\ returned[i].title = <<"title", i>>
            /\ returned[i].pdf_content = <<"path", i>>

\* Both requests were made, the first failed and was not repeated.
C10_Witness ==
  /\ pc = "done"
  /\ obs[1].reply = TransportError /\ obs[1].status = "failed"
  /\ Len(sent) = 2 /\ sent[1].art = 1 /\ sent[2].art = 2
  /\ returned[1].summary = EmptyStr

====
